---- MODULE Spec2Model ----
(***************************************************************************)
(* A model of ppc_simd.h: the PowerPC vector load/store, reversal,        *)
(* 64-bit add and octet shift helpers.                                     *)
(*                                                                         *)
(* A vector is a function 0..15 -> 0..255 holding the 16 bytes in ELEMENT  *)
(* order: element i of a uint8x16_p is the byte an lvx/stvx/lxvd2x moves   *)
(* from/to address ea+i, on either host byte order.  On a big-endian host  *)
(* element 0 is the most significant byte of the register, on a            *)
(* little-endian host it is the least significant one; the built-ins that  *)
(* work on the register image (vec_sld) are modelled accordingly.          *)
(***************************************************************************)
EXTENDS Integers, Sequences, FiniteSets, TLC

VARIABLES cfg, smem, dmem, src, dest, vec, hist

vars == <<cfg, smem, dmem, src, dest, vec, hist>>

----------------------------------------------------------------------------
(* Bounds of the model                                                     *)

MemSize == 64          \* bytes of each modelled address space
MaxOff == 2            \* byte offsets 0..MaxOff (and 16, 17) are passed to loads/stores
MaxSeed == 0           \* source buffer contents 0..MaxSeed
MaxCount == 17         \* octet counts 0..MaxCount (and 255) are instantiated

Addr == 0 .. (MemSize - 1)
Lanes == 0 .. 15
Aligns == 0 .. 15
Offsets == (0 .. MaxOff) \cup {16, 17}
Counts == (0 .. MaxCount) \cup {255}

----------------------------------------------------------------------------
(* Build configurations: _ARCH_PWR7, _ARCH_PWR8, CRYPTOPP_BIG_ENDIAN and    *)
(* the compiler family (__xlc__ / __xlC__ / __clang__ versus GCC).          *)

Configs ==
    { c \in [pwr7 : BOOLEAN, pwr8 : BOOLEAN, be : BOOLEAN, xlc : BOOLEAN] :
        c.pwr8 => c.pwr7 }

----------------------------------------------------------------------------
(* The AltiVec / VSX built-ins the header calls                            *)

\* vec_ld(off, p): lvx, the effective address is truncated to 16 bytes
vec_ld(off, p, m) ==
    LET ea == ((p + off) \div 16) * 16
    IN  [i \in Lanes |-> m[ea + i]]

\* vec_lvsl(off, p): the permute control <<sh, sh+1, ..., sh+15>>
vec_lvsl(off, p) ==
    LET sh == (p + off) % 16
    IN  [i \in Lanes |-> sh + i]

\* vec_lvsr(off, p): the permute control <<16-sh, ..., 31-sh>>
vec_lvsr(off, p) ==
    LET sh == (p + off) % 16
    IN  [i \in Lanes |-> 16 - sh + i]

\* vec_perm(a, b, mask): element i is element mask[i] mod 32 of a || b
vec_perm(a, b, mask) ==
    [i \in Lanes |->
        LET k == mask[i] % 32
        IN  IF k < 16 THEN a[k] ELSE b[k - 16]]

\* vec_xl / vec_vsx_ld (off, p): 16 bytes from the unaligned address p+off
vec_xl(off, p, m) == [i \in Lanes |-> m[p + off + i]]

\* vec_xl_be(off, p) on a byte pointer: big-endian element order
vec_xl_be(off, p, m) ==
    IF cfg.be THEN [i \in Lanes |-> m[p + off + i]]
              ELSE [i \in Lanes |-> m[p + off + 15 - i]]

\* vec_st(v, off, p): stvx, the effective address is truncated to 16 bytes
vec_st(v, off, p, m) ==
    LET ea == ((p + off) \div 16) * 16
    IN  [a \in Addr |-> IF a >= ea /\ a < ea + 16 THEN v[a - ea] ELSE m[a]]

\* vec_ste(v, off, p) for an element of size bytes (stvebx, stvehx, stvewx):
\* the address is truncated to the element size, and the element of v that
\* sits at that address within its 16-byte block is stored
vec_ste(v, off, p, m, size) ==
    LET ea == ((p + off) \div size) * size
    IN  [a \in Addr |-> IF a >= ea /\ a < ea + size THEN v[a % 16] ELSE m[a]]

\* vec_xst / vec_vsx_st (v, off, p): 16 bytes to the unaligned address p+off
vec_xst(v, off, p, m) ==
    [a \in Addr |->
        IF a >= p + off /\ a < p + off + 16 THEN v[a - (p + off)] ELSE m[a]]

\* vec_xst_be(v, off, p) of a uint8x16_p: big-endian element order
vec_xst_be(v, off, p, m) ==
    [a \in Addr |->
        IF a >= p + off /\ a < p + off + 16
        THEN (IF cfg.be THEN v[a - (p + off)] ELSE v[15 - (a - (p + off))])
        ELSE m[a]]

\* vec_sld(a, b, c): the high 16 bytes of the register image a || b shifted
\* left by c bytes.  Register byte k is element k on a big-endian host and
\* element 15-k on a little-endian host.
vec_sld(a, b, c) ==
    IF cfg.be
    THEN [i \in Lanes |-> IF i + c < 16 THEN a[i + c] ELSE b[i + c - 16]]
    ELSE [i \in Lanes |-> IF i >= c THEN a[i - c] ELSE b[16 + i - c]]

----------------------------------------------------------------------------
(* Reverse                                                                 *)

\* A plausible slip: the reversal done inside each 32-bit lane only
ReverseLaneWise(v) ==
    vec_perm(v, v, [i \in Lanes |-> 4 * (i \div 4) + 3 - (i % 4)])

\* Reverse(src): vec_perm(src, src, {15,14,...,0})
Reverse(v) ==
    LET mask == [i \in Lanes |-> 15 - i]
    IN  vec_perm(v, v, mask)

----------------------------------------------------------------------------
(* Loads.  p is the address held by the pointer argument, m the memory.   *)

\* VectorLoad_ALTIVEC(const byte src[16])
VectorLoad_ALTIVEC0(p, m) ==
    IF p % 16 = 0
    THEN vec_ld(0, p, m)
    ELSE LET perm == vec_lvsl(0, p)
             low  == vec_ld(0, p, m)
             high == vec_ld(15, p, m)
         IN  vec_perm(low, high, perm)

\* VectorLoad_ALTIVEC(int off, const byte src[16])
VectorLoad_ALTIVEC(off, p, m) ==
    IF p % 16 = 0
    THEN vec_ld(off, p, m)
    ELSE LET perm == vec_lvsl(off, p)
             low  == vec_ld(off, p, m)
             high == vec_ld(15, p, m)
         IN  vec_perm(low, high, perm)

\* VectorLoad(const byte src[16])
VectorLoad0(p, m) ==
    IF cfg.pwr7
    THEN vec_xl(0, p, m)
    ELSE VectorLoad_ALTIVEC0(p, m)

\* VectorLoad(int off, const byte src[16])
VectorLoad(off, p, m) ==
    IF cfg.pwr7
    THEN vec_xl(off, p, m)
    ELSE VectorLoad_ALTIVEC(off, p, m)

\* VectorLoadBE(const byte src[16])
VectorLoadBE0(p, m) ==
    IF cfg.pwr7
    THEN IF cfg.xlc
         THEN vec_xl_be(0, p, m)
         ELSE IF cfg.be THEN vec_xl(0, p, m) ELSE Reverse(vec_xl(0, p, m))
    ELSE IF cfg.be THEN VectorLoad0(p, m) ELSE Reverse(VectorLoad0(p, m))

\* VectorLoadBE(int off, const byte src[16])
VectorLoadBE(off, p, m) ==
    IF cfg.pwr7
    THEN IF cfg.xlc
         THEN vec_xl_be(off, p, m)
         ELSE IF cfg.be THEN vec_xl(off, p, m) ELSE Reverse(vec_xl(off, p, m))
    ELSE IF cfg.be THEN VectorLoad(off, p, m) ELSE Reverse(VectorLoad(off, p, m))

----------------------------------------------------------------------------
(* Stores.  The result is the memory after the store.                     *)

\* VectorStore_ALTIVEC(const T data, int off, byte dest[16])
VectorStore_ALTIVEC(data, off, p, m) ==
    IF p % 16 = 0
    THEN vec_st(data, off, p, m)
    ELSE LET perm == vec_perm(data, data, vec_lvsr(off, p))
             m1 == vec_ste(perm, 0, p, m, 1)
             m2 == vec_ste(perm, 1, p, m1, 2)
             m3 == vec_ste(perm, 3, p, m2, 4)
             m4 == vec_ste(perm, 4, p, m3, 4)
             m5 == vec_ste(perm, 8, p, m4, 4)
             m6 == vec_ste(perm, 12, p, m5, 4)
             m7 == vec_ste(perm, 14, p, m6, 2)
         IN  vec_ste(perm, 15, p, m7, 1)

\* VectorStore(const T data, int off, byte dest[16])
VectorStore(data, off, p, m) ==
    IF cfg.pwr7
    THEN vec_xst(data, off, p, m)
    ELSE VectorStore_ALTIVEC(data, off, p, m)

\* VectorStore(const T data, byte dest[16])
VectorStore0(data, p, m) ==
    IF cfg.pwr7
    THEN vec_xst(data, 0, p, m)
    ELSE VectorStore_ALTIVEC(data, 0, p, m)

\* A plausible slip: the little-endian branches forget the Reverse
VectorStoreBE0NoReverse(data, p, m) ==
    IF cfg.pwr7
    THEN vec_xst(data, 0, p, m)
    ELSE VectorStore0(data, p, m)

\* VectorStoreBE(const T src, byte dest[16])
VectorStoreBE0(data, p, m) ==
    IF cfg.pwr7
    THEN IF cfg.xlc
         THEN vec_xst_be(data, 0, p, m)
         ELSE IF cfg.be THEN vec_xst(data, 0, p, m)
                        ELSE vec_xst(Reverse(data), 0, p, m)
    ELSE IF cfg.be THEN VectorStore0(data, p, m)
                   ELSE VectorStore0(Reverse(data), p, m)

\* VectorStoreBE(const T src, int off, byte dest[16])
VectorStoreBE(data, off, p, m) ==
    IF cfg.pwr7
    THEN IF cfg.xlc
         THEN vec_xst_be(data, off, p, m)
         ELSE IF cfg.be THEN vec_xst(data, off, p, m)
                        ELSE vec_xst(Reverse(data), off, p, m)
    ELSE IF cfg.be THEN VectorStore(data, off, p, m)
                   ELSE VectorStore(Reverse(data), off, p, m)

----------------------------------------------------------------------------
(* The caller: buffers, a vector register and the calls made so far        *)

\* contents of the caller's source buffer (all bytes of a window differ)
SrcPattern(s) == [a \in Addr |-> ((2 * s + 1) * a + 16 * s + 1) % 256]

\* contents of the destination memory before any store
Fill == [a \in Addr |-> 250 - a]

\* the register before any load
Iota == [i \in Lanes |-> 160 + i]

ZeroVec == [i \in Lanes |-> 0]

\* one call: the function, its offset / count argument, the register and
\* the destination memory before the call, and a second vector operand
Call(op, arg, w) ==
    [op |-> op, arg |-> arg, vin |-> vec, min |-> dmem, w |-> w]

Fresh == hist = <<>>

Last == hist[Len(hist)]

LoadOps == {"VectorLoad", "VectorLoad0", "VectorLoadBE", "VectorLoadBE0"}

AfterLoad == Len(hist) = 1 /\ hist[1].op \in LoadOps

\* the 16 bytes m[a .. a+16)
Window(m, a) == [i \in Lanes |-> m[a + i]]

\* memory m with the 16 bytes of v at [a, a+16) and every other byte kept
Patched(m, a, v) ==
    [x \in Addr |-> IF x >= a /\ x < a + 16 THEN v[x - a] ELSE m[x]]

InitMem ==
    /\ cfg \in Configs
    /\ src \in Aligns
    /\ dest \in Aligns
    /\ \E s \in 0 .. MaxSeed : smem = SrcPattern(s)
    /\ dmem = Fill
    /\ vec = Iota
    /\ hist = <<>>

CallVectorLoad(off) ==
    /\ Fresh
    /\ vec' = VectorLoad(off, src, smem)
    /\ hist' = Append(hist, Call("VectorLoad", off, ZeroVec))
    /\ UNCHANGED <<cfg, smem, dmem, src, dest>>

CallVectorLoad0 ==
    /\ Fresh
    /\ vec' = VectorLoad0(src, smem)
    /\ hist' = Append(hist, Call("VectorLoad0", 0, ZeroVec))
    /\ UNCHANGED <<cfg, smem, dmem, src, dest>>

CallVectorLoadBE(off) ==
    /\ Fresh
    /\ vec' = VectorLoadBE(off, src, smem)
    /\ hist' = Append(hist, Call("VectorLoadBE", off, ZeroVec))
    /\ UNCHANGED <<cfg, smem, dmem, src, dest>>

CallVectorLoadBE0 ==
    /\ Fresh
    /\ vec' = VectorLoadBE0(src, smem)
    /\ hist' = Append(hist, Call("VectorLoadBE0", 0, ZeroVec))
    /\ UNCHANGED <<cfg, smem, dmem, src, dest>>

CallVectorStore(off) ==
    /\ Fresh \/ AfterLoad
    /\ dmem' = VectorStore(vec, off, dest, dmem)
    /\ hist' = Append(hist, Call("VectorStore", off, ZeroVec))
    /\ UNCHANGED <<cfg, smem, src, dest, vec>>

CallVectorStore0 ==
    /\ Fresh \/ AfterLoad
    /\ dmem' = VectorStore0(vec, dest, dmem)
    /\ hist' = Append(hist, Call("VectorStore0", 0, ZeroVec))
    /\ UNCHANGED <<cfg, smem, src, dest, vec>>

CallVectorStoreBE(off) ==
    /\ Fresh \/ AfterLoad
    /\ dmem' = VectorStoreBE(vec, off, dest, dmem)
    /\ hist' = Append(hist, Call("VectorStoreBE", off, ZeroVec))
    /\ UNCHANGED <<cfg, smem, src, dest, vec>>

CallVectorStoreBE0 ==
    /\ Fresh \/ AfterLoad
    /\ dmem' = VectorStoreBE0(vec, dest, dmem)
    /\ hist' = Append(hist, Call("VectorStoreBE0", 0, ZeroVec))
    /\ UNCHANGED <<cfg, smem, src, dest, vec>>

NextMem ==
    \/ \E off \in Offsets : CallVectorLoad(off)
    \/ CallVectorLoad0
    \/ \E off \in Offsets : CallVectorLoadBE(off)
    \/ CallVectorLoadBE0
    \/ \E off \in Offsets : CallVectorStore(off)
    \/ CallVectorStore0
    \/ \E off \in Offsets : CallVectorStoreBE(off)
    \/ CallVectorStoreBE0

SpecMem == InitMem /\ [][NextMem]_vars

----------------------------------------------------------------------------
(* Load / store claims                                                     *)

\* C1: Load(buffer, off) returns exactly the bytes buffer[off .. off+16), in
\* order, for every base alignment and offset and on every dispatch path.
C1_LoadReturnsBufferBytes ==
    (~Fresh /\ Last.op = "VectorLoad") =>
        vec = Window(smem, src + Last.arg)

\* C2: Store(vector, buffer, off) leaves buffer[off .. off+16) equal to the
\* vector and every other byte of memory unchanged, for every base
\* alignment and offset and on every dispatch path.
C2_StoreWritesExactlyWindow ==
    (~Fresh /\ Last.op = "VectorStore") =>
        dmem = Patched(Last.min, dest + Last.arg, Last.vin)

\* C3: after Store(Load(B, o), B2, o) the bytes B2[o .. o+16) equal
\* B[o .. o+16), whatever the alignments and the capability path.
C3_LoadStoreRoundTrip ==
    (/\ Len(hist) = 2
     /\ hist[1].op = "VectorLoad"
     /\ hist[2].op = "VectorStore"
     /\ hist[1].arg = hist[2].arg) =>
        Window(dmem, dest + hist[2].arg) = Window(smem, src + hist[1].arg)

\* C4: StoreBigEndian(LoadBigEndian(buf, off), buf2, off) writes into
\* buf2[off .. off+16) exactly the bytes buf[off .. off+16), on both host
\* byte orders and on every compiler / capability branch.
C4_BigEndianRoundTrip ==
    (/\ Len(hist) = 2
     /\ hist[1].op = "VectorLoadBE"
     /\ hist[2].op = "VectorStoreBE"
     /\ hist[1].arg = hist[2].arg) =>
        Window(dmem, dest + hist[2].arg) = Window(smem, src + hist[1].arg)

\* C5: a native Load followed by StoreBigEndian writes the whole-vector
\* byte reversal of the buffer on a little-endian host (output byte i is
\* B[15-i]) and the buffer unchanged on a big-endian host.
C5_NativeLoadBigEndianStore ==
    (/\ Len(hist) = 2
     /\ hist[1].op = "VectorLoad0"
     /\ hist[2].op = "VectorStoreBE0") =>
        \A i \in Lanes :
            dmem[dest + i] = IF cfg.be THEN smem[src + i] ELSE smem[src + 15 - i]

C5_Witness ==
    /\ Len(hist) = 2
    /\ hist[1].op = "VectorLoad0"
    /\ hist[2].op = "VectorStoreBE0"
    /\ ~cfg.be
    /\ ~cfg.pwr7
    /\ src % 16 = 5
    /\ dest % 16 = 11
    /\ dmem[dest] = smem[src + 15]

----------------------------------------------------------------------------
(* Lane arithmetic.  A lane of n bytes starts at element base; its byte of *)
(* significance j (0 = least) is element base+n-1-j on a big-endian host   *)
(* and element base+j on a little-endian host.                             *)

Sig(base, n, j) == IF cfg.be THEN base + n - 1 - j ELSE base + j

\* significance of element i within its n-byte lane
SigOf(i, n) == IF cfg.be THEN n - 1 - (i % n) ELSE i % n

\* carry into the byte of significance j when the lanes at base are added
RECURSIVE CarryIn(_, _, _, _, _)
CarryIn(a, b, base, n, j) ==
    IF j = 0
    THEN 0
    ELSE (a[Sig(base, n, j - 1)] + b[Sig(base, n, j - 1)]
            + CarryIn(a, b, base, n, j - 1)) \div 256

\* vec_add on lanes of n bytes: each lane is the sum modulo 2^(8n)
vec_add_lanes(a, b, n) ==
    [i \in Lanes |->
        (a[i] + b[i] + CarryIn(a, b, (i \div n) * n, n, SigOf(i, n))) % 256]

\* vec_add(uint32x4_p, uint32x4_p): vadduwm
vec_add_u32(a, b) == vec_add_lanes(a, b, 4)

\* vec_add(uint64x2_p, uint64x2_p): vaddudm
vec_add_u64(a, b) == vec_add_lanes(a, b, 8)

\* vec_addc(uint32x4_p, uint32x4_p): vaddcuw, each 32-bit element is the
\* carry out (0 or 1) of the sum of the two elements
vec_addc(a, b) ==
    [i \in Lanes |->
        IF SigOf(i, 4) = 0 THEN CarryIn(a, b, (i \div 4) * 4, 4, 4) ELSE 0]

----------------------------------------------------------------------------
(* VectorAdd64                                                             *)

\* VectorAdd64(const uint32x4_p& vec1, const uint32x4_p& vec2)
VectorAdd64(vec1, vec2) ==
    IF cfg.pwr8
    THEN vec_add_u64(vec1, vec2)
    ELSE LET cm    == <<4, 5, 6, 7, 16, 16, 16, 16, 12, 13, 14, 15, 16, 16, 16, 16>>
             cmask == [i \in Lanes |-> cm[i + 1]]
             zero  == ZeroVec
             cy    == vec_perm(vec_addc(vec1, vec2), zero, cmask)
         IN  vec_add_u32(vec_add_u32(vec1, vec2), cy)

----------------------------------------------------------------------------
(* Octet shifts                                                            *)

\* A plausible slip: no out-of-range test, the count taken modulo 16 as the
\* rotates do
ShiftLeftOctetNoRangeCheck(C, v) ==
    LET zero == ZeroVec
        R == C % 16
    IN  IF R = 0 THEN v
        ELSE IF cfg.be THEN vec_sld(v, zero, R)
        ELSE vec_sld(zero, v, 16 - R)

\* A plausible slip: the little-endian branch left as on big-endian
ShiftLeftOctetNoSwap(C, v) ==
    LET zero == ZeroVec
    IN  IF C >= 16 THEN zero
        ELSE IF C = 0 THEN v
        ELSE vec_sld(v, zero, C)

\* VectorShiftLeftOctet<C>(const T vec)
VectorShiftLeftOctet(C, v) ==
    LET zero == ZeroVec
    IN  IF C >= 16 THEN zero
        ELSE IF C = 0 THEN v
        ELSE IF cfg.be THEN vec_sld(v, zero, C)
        ELSE vec_sld(zero, v, 16 - C)

\* A plausible slip: the shift count not complemented
ShiftRightOctetWrongCount(C, v) ==
    LET zero == ZeroVec
    IN  IF C >= 16 THEN zero
        ELSE IF C = 0 THEN v
        ELSE IF cfg.be THEN vec_sld(zero, v, C)
        ELSE vec_sld(v, zero, 16 - C)

\* VectorShiftRightOctet<C>(const T vec)
VectorShiftRightOctet(C, v) ==
    LET zero == ZeroVec
    IN  IF C >= 16 THEN zero
        ELSE IF C = 0 THEN v
        ELSE IF cfg.be THEN vec_sld(zero, v, 16 - C)
        ELSE vec_sld(v, zero, C)

----------------------------------------------------------------------------
(* The caller of the register-only helpers: at most two calls in a row     *)

\* 0x00 .. 0x0F
Ramp == [i \in Lanes |-> i]

AllOnes == [i \in Lanes |-> 255]

\* 0xFFFFFFFF in 32-bit elements 1 and 3, zero in elements 0 and 2
OddWordsOnes == [i \in Lanes |-> IF (i \div 4) % 2 = 1 THEN 255 ELSE 0]

\* 0xFFFFFFFF in 32-bit elements 0 and 2, zero in elements 1 and 3
EvenWordsOnes == [i \in Lanes |-> IF (i \div 4) % 2 = 0 THEN 255 ELSE 0]

Mixed == [i \in Lanes |-> (37 * i + 200) % 256]

TestVectors == {Ramp, AllOnes, OddWordsOnes, EvenWordsOnes, Mixed}

\* the 64-bit value 1 in 64-bit lane L, zero in the other lane
OneInLane(L) == [i \in Lanes |-> IF i = Sig(8 * L, 8, 0) THEN 1 ELSE 0]

Addends == {OneInLane(0), OneInLane(1), AllOnes, Mixed}

InitVec ==
    /\ cfg \in Configs
    /\ src = 0
    /\ dest = 0
    /\ smem = SrcPattern(0)
    /\ dmem = Fill
    /\ vec \in TestVectors
    /\ hist = <<>>

CallReverse ==
    /\ Len(hist) <= 1
    /\ vec' = Reverse(vec)
    /\ hist' = Append(hist, Call("Reverse", 0, ZeroVec))
    /\ UNCHANGED <<cfg, smem, dmem, src, dest>>

CallVectorAdd64(w) ==
    /\ Len(hist) <= 1
    /\ vec' = VectorAdd64(vec, w)
    /\ hist' = Append(hist, Call("VectorAdd64", 0, w))
    /\ UNCHANGED <<cfg, smem, dmem, src, dest>>

CallVectorShiftLeftOctet(C) ==
    /\ Len(hist) <= 1
    /\ vec' = VectorShiftLeftOctet(C, vec)
    /\ hist' = Append(hist, Call("VectorShiftLeftOctet", C, ZeroVec))
    /\ UNCHANGED <<cfg, smem, dmem, src, dest>>

CallVectorShiftRightOctet(C) ==
    /\ Len(hist) <= 1
    /\ vec' = VectorShiftRightOctet(C, vec)
    /\ hist' = Append(hist, Call("VectorShiftRightOctet", C, ZeroVec))
    /\ UNCHANGED <<cfg, smem, dmem, src, dest>>

NextVec ==
    \/ CallReverse
    \/ \E w \in Addends : CallVectorAdd64(w)
    \/ \E C \in Counts : CallVectorShiftLeftOctet(C)
    \/ \E C \in Counts : CallVectorShiftRightOctet(C)

SpecVec == InitVec /\ [][NextVec]_vars

----------------------------------------------------------------------------
(* The caller of the documented sequence x = VectorLoad(ptr);               *)
(* y = VectorShift...Octet<C>(x); VectorStore(y, out)                       *)

InitPipe ==
    /\ cfg \in Configs
    /\ src \in Aligns
    /\ dest \in Aligns
    /\ \E s \in 0 .. MaxSeed : smem = SrcPattern(s)
    /\ dmem = Fill
    /\ vec = Iota
    /\ hist = <<>>

AfterLoad0 == Len(hist) = 1 /\ hist[1].op = "VectorLoad0"

ShiftOps == {"VectorShiftLeftOctet", "VectorShiftRightOctet"}

ShiftLeftLoaded(C) ==
    /\ AfterLoad0
    /\ vec' = VectorShiftLeftOctet(C, vec)
    /\ hist' = Append(hist, Call("VectorShiftLeftOctet", C, ZeroVec))
    /\ UNCHANGED <<cfg, smem, dmem, src, dest>>

ShiftRightLoaded(C) ==
    /\ AfterLoad0
    /\ vec' = VectorShiftRightOctet(C, vec)
    /\ hist' = Append(hist, Call("VectorShiftRightOctet", C, ZeroVec))
    /\ UNCHANGED <<cfg, smem, dmem, src, dest>>

StoreShifted ==
    /\ Len(hist) = 2
    /\ hist[2].op \in ShiftOps
    /\ dmem' = VectorStore0(vec, dest, dmem)
    /\ hist' = Append(hist, Call("VectorStore0", 0, ZeroVec))
    /\ UNCHANGED <<cfg, smem, src, dest, vec>>

NextPipe ==
    \/ CallVectorLoad0
    \/ \E C \in Counts : ShiftLeftLoaded(C)
    \/ \E C \in Counts : ShiftRightLoaded(C)
    \/ StoreShifted

SpecPipe == InitPipe /\ [][NextPipe]_vars

----------------------------------------------------------------------------
(* Reverse, Add64 and octet shift claims                                   *)

\* C6: ReverseBytes maps byte i of its input to byte 15-i of its output, and
\* applying it twice gives the input back.
C6_ReverseIsInvolution ==
    /\ (~Fresh /\ Last.op = "Reverse") =>
            \A i \in Lanes : vec[15 - i] = Last.vin[i]
    /\ (Len(hist) = 2 /\ hist[1].op = "Reverse" /\ hist[2].op = "Reverse") =>
            vec = hist[1].vin

C6_Witness ==
    /\ Len(hist) = 2
    /\ hist[1].op = "Reverse"
    /\ hist[2].op = "Reverse"
    /\ hist[1].vin = Ramp
    /\ hist[2].vin[0] = 15
    /\ hist[2].vin[15] = 0
    /\ vec = Ramp

\* the 16-bit limb q (0 = least significant) of 64-bit lane L of v
Limb(v, L, q) ==
    256 * v[Sig(8 * L, 8, 2 * q + 1)] + v[Sig(8 * L, 8, 2 * q)]

\* lane L of r is lane L of a plus lane L of b modulo 2^64: the limbs add up
\* with carries c[1..3] between them and the carry c[4] out of the lane dropped
IsSum64(a, b, r, L) ==
    \E c \in [0 .. 4 -> {0, 1}] :
        /\ c[0] = 0
        /\ \A q \in 0 .. 3 :
              Limb(a, L, q) + Limb(b, L, q) + c[q]
                  = Limb(r, L, q) + 65536 * c[q + 1]

\* C7: Add64(a, b) is the sum of a and b as two 64-bit lanes, each modulo
\* 2^64, on the native path and on the 32-bit carry-emulation path; a carry
\* never crosses from one 64-bit lane into the other.
C7_Add64IsLaneSum ==
    (~Fresh /\ Last.op = "VectorAdd64") =>
        \A L \in {0, 1} : IsSum64(Last.vin, Last.w, vec, L)

\* C8: for every count C in 16..255 both octet shifts return the all-zero
\* vector, on either host byte order.
C8_ShiftOutOfRangeIsZero ==
    /\ (~Fresh /\ Last.op \in ShiftOps /\ Last.arg >= 16 /\ Last.arg <= 255) =>
            vec = ZeroVec
    /\ \A C \in 16 .. 255 :
            /\ VectorShiftLeftOctet(C, vec) = ZeroVec
            /\ VectorShiftRightOctet(C, vec) = ZeroVec

C8_Witness ==
    /\ Len(hist) = 1
    /\ Last.op = "VectorShiftLeftOctet"
    /\ Last.arg = 16
    /\ Last.vin = AllOnes
    /\ ~cfg.be
    /\ vec = ZeroVec

ShiftRightThenLeft ==
    /\ Len(hist) = 2
    /\ hist[1].op = "VectorShiftRightOctet"
    /\ hist[2].op = "VectorShiftLeftOctet"
    /\ hist[1].arg = hist[2].arg
    /\ hist[1].arg <= 15

\* C10 as stated: ShiftLeftOctet<C>(ShiftRightOctet<C>(v)) is v with its low
\* 16-C bytes (the last 16-C bytes of the big-endian view) set to zero and
\* its other bytes preserved.
C10_AsStated ==
    ShiftRightThenLeft =>
        \A i \in Lanes :
            vec[i] = IF i >= hist[1].arg THEN 0 ELSE hist[1].vin[i]

\* C10 amended: ShiftLeftOctet<C>(ShiftRightOctet<C>(v)) is v with its low
\* C bytes (bytes 16-C..15 of the big-endian view) set to zero and its other
\* 16-C bytes preserved.
C10_ShiftRightLeftZeroesLowC ==
    ShiftRightThenLeft =>
        \A i \in Lanes :
            vec[i] = IF i >= 16 - hist[1].arg THEN 0 ELSE hist[1].vin[i]

C10_Witness ==
    /\ ShiftRightThenLeft
    /\ hist[1].arg = 5
    /\ hist[1].vin = AllOnes
    /\ ~cfg.be
    /\ vec[10] = 255
    /\ vec[11] = 0

----------------------------------------------------------------------------
(* Octet rotates, SwapWords, GetLow / GetHigh                              *)

\* The shift counts a vec_sld with the literal c can execute.  The built-in
\* takes a 4-bit literal; the little-endian rotates pass 16-R = 16 for
\* R = 0, which a build either takes as the window at 16 or truncates to
\* the 4-bit field.
SldLiteral(c) == IF c <= 15 THEN {c} ELSE {c, c % 16}

\* A plausible slip: the zero second operand of the shifts copied over
RotateLeftOctetZeroOperand(C, v) ==
    LET R == C % 16
    IN  { vec_sld(v, ZeroVec, k) : k \in SldLiteral(IF cfg.be THEN R ELSE 16 - R) }

\* VectorRotateLeftOctet<C>(const T vec), R = C & 0xf: the vectors the
\* build can return
VectorRotateLeftOctet(C, v) ==
    LET R == C % 16
    IN  { vec_sld(v, v, k) : k \in SldLiteral(IF cfg.be THEN R ELSE 16 - R) }

\* A plausible slip: the little-endian branch left as on big-endian
RotateRightOctetNoSwap(C, v) ==
    LET R == C % 16
    IN  { vec_sld(v, v, k) : k \in SldLiteral(16 - R) }

\* VectorRotateRightOctet<C>(const T vec), R = C & 0xf: the vectors the
\* build can return
VectorRotateRightOctet(C, v) ==
    LET R == C % 16
    IN  { vec_sld(v, v, k) : k \in SldLiteral(IF cfg.be THEN 16 - R ELSE R) }

\* A plausible slip: a rotate by one 32-bit word instead of a double word
SwapWordsByFour(v) == vec_sld(v, v, 4)

\* VectorSwapWords(const T vec)
VectorSwapWords(v) == vec_sld(v, v, 8)

\* A plausible slip: the left shift forgotten
GetLowNoShiftLeft(v) == VectorShiftRightOctet(8, v)

\* VectorGetLow(const T val)
VectorGetLow(v) == VectorShiftRightOctet(8, VectorShiftLeftOctet(8, v))

\* VectorGetHigh(const T val)
VectorGetHigh(v) == VectorShiftRightOctet(8, v)

----------------------------------------------------------------------------
(* Bit rotates of the four 32-bit elements                                 *)

\* vec_rl(vec, {n, n, n, n}): vrlw rotates each 32-bit element left by the
\* low-order 5 bits of its count
vec_rl(v, n) ==
    LET s == n % 32
        q == s \div 8
        r == s % 8
    IN  [i \in Lanes |->
            LET base == (i \div 4) * 4
                j    == SigOf(i, 4)
                from == v[Sig(base, 4, (j + 4 - q) % 4)]
                below == v[Sig(base, 4, (j + 7 - q) % 4)]
            IN  ((from * (2 ^ r)) % 256) + (below \div (2 ^ (8 - r)))]

\* VectorRotateLeft<C>(const uint32x4_p vec)
VectorRotateLeft(C, v) == vec_rl(v, C)

\* A plausible slip: the count not complemented
RotateRightNoComplement(C, v) == vec_rl(v, C)

\* VectorRotateRight<C>(const uint32x4_p vec)
VectorRotateRight(C, v) == vec_rl(v, 32 - C)

----------------------------------------------------------------------------
(* The caller of the rotates and half extractions: at most two calls       *)

MaxBits == 31          \* bit counts 0..MaxBits are instantiated

BitCounts == 0 .. MaxBits

InitRot ==
    /\ cfg \in Configs
    /\ src = 0
    /\ dest = 0
    /\ smem = SrcPattern(0)
    /\ dmem = Fill
    /\ vec \in TestVectors
    /\ hist = <<>>

CallVectorRotateLeftOctet(C) ==
    /\ Len(hist) <= 1
    /\ vec' \in VectorRotateLeftOctet(C, vec)
    /\ hist' = Append(hist, Call("VectorRotateLeftOctet", C, ZeroVec))
    /\ UNCHANGED <<cfg, smem, dmem, src, dest>>

CallVectorRotateRightOctet(C) ==
    /\ Len(hist) <= 1
    /\ vec' \in VectorRotateRightOctet(C, vec)
    /\ hist' = Append(hist, Call("VectorRotateRightOctet", C, ZeroVec))
    /\ UNCHANGED <<cfg, smem, dmem, src, dest>>

CallVectorSwapWords ==
    /\ Len(hist) <= 1
    /\ vec' = VectorSwapWords(vec)
    /\ hist' = Append(hist, Call("VectorSwapWords", 0, ZeroVec))
    /\ UNCHANGED <<cfg, smem, dmem, src, dest>>

CallVectorGetLow ==
    /\ Len(hist) <= 1
    /\ vec' = VectorGetLow(vec)
    /\ hist' = Append(hist, Call("VectorGetLow", 0, ZeroVec))
    /\ UNCHANGED <<cfg, smem, dmem, src, dest>>

CallVectorGetHigh ==
    /\ Len(hist) <= 1
    /\ vec' = VectorGetHigh(vec)
    /\ hist' = Append(hist, Call("VectorGetHigh", 0, ZeroVec))
    /\ UNCHANGED <<cfg, smem, dmem, src, dest>>

CallVectorRotateLeft(C) ==
    /\ Len(hist) <= 1
    /\ vec' = VectorRotateLeft(C, vec)
    /\ hist' = Append(hist, Call("VectorRotateLeft", C, ZeroVec))
    /\ UNCHANGED <<cfg, smem, dmem, src, dest>>

CallVectorRotateRight(C) ==
    /\ Len(hist) <= 1
    /\ vec' = VectorRotateRight(C, vec)
    /\ hist' = Append(hist, Call("VectorRotateRight", C, ZeroVec))
    /\ UNCHANGED <<cfg, smem, dmem, src, dest>>

NextRot ==
    \/ \E C \in Counts : CallVectorRotateLeftOctet(C)
    \/ \E C \in Counts : CallVectorRotateRightOctet(C)
    \/ CallVectorSwapWords
    \/ CallVectorGetLow
    \/ CallVectorGetHigh
    \/ \E C \in BitCounts : CallVectorRotateLeft(C)
    \/ \E C \in BitCounts : CallVectorRotateRight(C)

SpecRot == InitRot /\ [][NextRot]_vars

----------------------------------------------------------------------------
(* Rotate, SwapWords and half extraction claims                            *)

\* C11: RotateLeftOctet<0>(v) = v and RotateLeftOctet<16>(v) = v on a
\* big-endian host (vec_sld count 0) and on a little-endian host (vec_sld
\* count 16).
C11_RotateLeftByZeroOrSixteen ==
    /\ (~Fresh /\ Last.op = "VectorRotateLeftOctet" /\ Last.arg \in {0, 16}) =>
            vec = Last.vin
    /\ VectorRotateLeftOctet(0, vec) = {vec}
    /\ VectorRotateLeftOctet(16, vec) = {vec}

C11_Witness ==
    /\ Len(hist) = 1
    /\ Last.op = "VectorRotateLeftOctet"
    /\ Last.arg = 16
    /\ ~cfg.be
    /\ Last.vin = Ramp
    /\ vec = Ramp

\* C12: for every count C, RotateLeftOctet<C> is the circular rotation
\* whose output byte i is input byte (i + C) mod 16 and RotateRightOctet<C>
\* the one whose output byte i is input byte (i - C) mod 16, the count
\* reduced modulo 16 and no byte zero-filled; so RotateRightOctet<C> undoes
\* RotateLeftOctet<C>, on both host byte orders.
C12_OctetRotatesAreCircular ==
    /\ (~Fresh /\ Last.op = "VectorRotateLeftOctet") =>
            \A i \in Lanes : vec[i] = Last.vin[(i + Last.arg) % 16]
    /\ (~Fresh /\ Last.op = "VectorRotateRightOctet") =>
            \A i \in Lanes : vec[i] = Last.vin[(i + 16 - (Last.arg % 16)) % 16]
    /\ (/\ Len(hist) = 2
        /\ hist[1].op = "VectorRotateLeftOctet"
        /\ hist[2].op = "VectorRotateRightOctet"
        /\ hist[1].arg = hist[2].arg) =>
            vec = hist[1].vin

C12_Witness ==
    /\ Len(hist) = 2
    /\ hist[1].op = "VectorRotateLeftOctet"
    /\ hist[2].op = "VectorRotateRightOctet"
    /\ hist[1].arg = 5
    /\ hist[2].arg = 5
    /\ ~cfg.be
    /\ hist[1].vin = Ramp
    /\ hist[2].vin[0] = 5
    /\ hist[2].vin[15] = 4
    /\ vec = Ramp

\* C13: GetLowHalf(v) keeps bytes 8..15 of v (its low half in the big-endian
\* view) and has bytes 0..7 zero; GetHighHalf(v) holds bytes 0..7 of v (its
\* high half) in positions 8..15 and has bytes 0..7 zero; they equal
\* ShiftRightOctet<8>(ShiftLeftOctet<8>(v)) and ShiftRightOctet<8>(v).
C13_GetLowAndHighHalves ==
    /\ (~Fresh /\ Last.op = "VectorGetLow") =>
            /\ \A i \in Lanes : vec[i] = IF i >= 8 THEN Last.vin[i] ELSE 0
            /\ vec = VectorShiftRightOctet(8, VectorShiftLeftOctet(8, Last.vin))
    /\ (~Fresh /\ Last.op = "VectorGetHigh") =>
            /\ \A i \in Lanes : vec[i] = IF i >= 8 THEN Last.vin[i - 8] ELSE 0
            /\ vec = VectorShiftRightOctet(8, Last.vin)

C13_Witness ==
    /\ Len(hist) = 1
    /\ Last.op = "VectorGetLow"
    /\ ~cfg.be
    /\ Last.vin = Ramp
    /\ vec[7] = 0
    /\ vec[8] = 8
    /\ vec[15] = 15

\* C14: SwapWords(v) exchanges the two 8-byte halves of v and equals both
\* RotateLeftOctet<8>(v) and RotateRightOctet<8>(v), on both byte orders.
C14_SwapWordsIsRotateByEight ==
    (~Fresh /\ Last.op = "VectorSwapWords") =>
        /\ \A i \in Lanes : vec[i] = Last.vin[(i + 8) % 16]
        /\ VectorRotateLeftOctet(8, Last.vin) = {vec}
        /\ VectorRotateRightOctet(8, Last.vin) = {vec}

C14_Witness ==
    /\ Len(hist) = 1
    /\ Last.op = "VectorSwapWords"
    /\ ~cfg.be
    /\ Last.vin = Ramp
    /\ vec[0] = 8
    /\ vec[8] = 0

\* bit k (0 = least significant) of 32-bit element e of v
BitOf(v, e, k) == (v[Sig(4 * e, 4, k \div 8)] \div (2 ^ (k % 8))) % 2

\* C15: for C in 0..31, RotateLeftBits<C> rotates each 32-bit lane left by
\* C bits and RotateRightBits<C> rotates each lane right by C bits, also
\* for C = 0 (hardware count 32); RotateRightBits<C> undoes
\* RotateLeftBits<C> and no bit moves between lanes.
C15_BitRotatesPerLane ==
    /\ (~Fresh /\ Last.op = "VectorRotateLeft" /\ Last.arg <= 31) =>
            \A e \in 0 .. 3 : \A k \in 0 .. 31 :
                BitOf(vec, e, k) = BitOf(Last.vin, e, (k + 32 - Last.arg) % 32)
    /\ (~Fresh /\ Last.op = "VectorRotateRight" /\ Last.arg <= 31) =>
            \A e \in 0 .. 3 : \A k \in 0 .. 31 :
                BitOf(vec, e, k) = BitOf(Last.vin, e, (k + Last.arg) % 32)
    /\ (/\ Len(hist) = 2
        /\ hist[1].op = "VectorRotateLeft"
        /\ hist[2].op = "VectorRotateRight"
        /\ hist[1].arg = hist[2].arg
        /\ hist[1].arg <= 31) =>
            vec = hist[1].vin

C15_Witness ==
    /\ Len(hist) = 2
    /\ hist[1].op = "VectorRotateLeft"
    /\ hist[2].op = "VectorRotateRight"
    /\ hist[1].arg = 13
    /\ hist[2].arg = 13
    /\ hist[1].vin = Mixed
    /\ hist[2].vin # Mixed
    /\ vec = Mixed

C15_WitnessZero ==
    /\ Len(hist) = 1
    /\ Last.op = "VectorRotateRight"
    /\ Last.arg = 0
    /\ Last.vin = Mixed
    /\ vec = Mixed

----------------------------------------------------------------------------
(* Branches taken and memory accesses made.  Every operator below takes   *)
(* the contents (memory image, vector) its function can see, and returns  *)
(* the decisions of the function (Path) or the accesses it issues, in     *)
(* program order (Acc): built-in, effective address, number of bytes.     *)

Access(k, ea, n) == [k |-> k, ea |-> ea, n |-> n]

vec_ld_acc(off, p) == Access("vec_ld", ((p + off) \div 16) * 16, 16)

vec_st_acc(off, p) == Access("vec_st", ((p + off) \div 16) * 16, 16)

vec_ste_acc(off, p, size) == Access("vec_ste", ((p + off) \div size) * size, size)

\* the bytes one vec_ste writes, first address first
vec_ste_val(v, off, p, size) ==
    LET ea == ((p + off) \div size) * size
    IN  [i \in 0 .. size - 1 |-> v[(ea + i) % 16]]

\* VectorLoad_ALTIVEC(int off, const byte src[16]): if (IsAlignedOn(src, 16))
VectorLoad_ALTIVEC_Path(off, p, m) ==
    IF p % 16 = 0 THEN <<"aligned">> ELSE <<"unaligned">>

VectorLoad_ALTIVEC_Acc(off, p, m) ==
    IF p % 16 = 0
    THEN <<vec_ld_acc(off, p)>>
    ELSE <<vec_ld_acc(off, p), vec_ld_acc(15, p)>>

\* VectorLoad(int off, const byte src[16]); the no-offset overload is off = 0
VectorLoad_Path(off, p, m) ==
    IF cfg.pwr7
    THEN <<"_ARCH_PWR7", IF cfg.xlc THEN "vec_xl" ELSE "vec_vsx_ld">>
    ELSE <<"VectorLoad_ALTIVEC">> \o VectorLoad_ALTIVEC_Path(off, p, m)

VectorLoad_Acc(off, p, m) ==
    IF cfg.pwr7
    THEN <<Access("vec_xl", p + off, 16)>>
    ELSE VectorLoad_ALTIVEC_Acc(off, p, m)

\* A plausible slip: vec_lvsl, the load's permute control, used for the store
StoreAltivec0WithLvsl(data, p, m) ==
    IF p % 16 = 0
    THEN vec_st(data, 0, p, m)
    ELSE LET perm == vec_perm(data, data, vec_lvsl(0, p))
             m1 == vec_ste(perm, 0, p, m, 1)
             m2 == vec_ste(perm, 1, p, m1, 2)
             m3 == vec_ste(perm, 3, p, m2, 4)
             m4 == vec_ste(perm, 4, p, m3, 4)
             m5 == vec_ste(perm, 8, p, m4, 4)
             m6 == vec_ste(perm, 12, p, m5, 4)
             m7 == vec_ste(perm, 14, p, m6, 2)
         IN  vec_ste(perm, 15, p, m7, 1)

\* VectorStore_ALTIVEC(const T data, byte dest[16])
VectorStore_ALTIVEC0(data, p, m) ==
    IF p % 16 = 0
    THEN vec_st(data, 0, p, m)
    ELSE LET perm == vec_perm(data, data, vec_lvsr(0, p))
             m1 == vec_ste(perm, 0, p, m, 1)
             m2 == vec_ste(perm, 1, p, m1, 2)
             m3 == vec_ste(perm, 3, p, m2, 4)
             m4 == vec_ste(perm, 4, p, m3, 4)
             m5 == vec_ste(perm, 8, p, m4, 4)
             m6 == vec_ste(perm, 12, p, m5, 4)
             m7 == vec_ste(perm, 14, p, m6, 2)
         IN  vec_ste(perm, 15, p, m7, 1)

\* VectorStore_ALTIVEC(const T data, int off, byte dest[16]):
\* if (IsAlignedOn(dest, 16))
VectorStore_ALTIVEC_Path(data, off, p, m) ==
    IF p % 16 = 0 THEN <<"aligned">> ELSE <<"unaligned">>

VectorStore_ALTIVEC_Acc(data, off, p, m) ==
    IF p % 16 = 0
    THEN <<vec_st_acc(off, p)>>
    ELSE << vec_ste_acc(0, p, 1), vec_ste_acc(1, p, 2), vec_ste_acc(3, p, 4),
            vec_ste_acc(4, p, 4), vec_ste_acc(8, p, 4), vec_ste_acc(12, p, 4),
            vec_ste_acc(14, p, 2), vec_ste_acc(15, p, 1) >>

\* the bytes each access of VectorStore_ALTIVEC writes, in program order
VectorStore_ALTIVEC_Val(data, off, p, m) ==
    IF p % 16 = 0
    THEN <<data>>
    ELSE LET perm == vec_perm(data, data, vec_lvsr(off, p))
         IN  << vec_ste_val(perm, 0, p, 1), vec_ste_val(perm, 1, p, 2),
                vec_ste_val(perm, 3, p, 4), vec_ste_val(perm, 4, p, 4),
                vec_ste_val(perm, 8, p, 4), vec_ste_val(perm, 12, p, 4),
                vec_ste_val(perm, 14, p, 2), vec_ste_val(perm, 15, p, 1) >>

\* VectorStore(const T data, int off, byte dest[16]); the no-offset
\* overload is off = 0
VectorStore_Path(data, off, p, m) ==
    IF cfg.pwr7
    THEN <<"_ARCH_PWR7", IF cfg.xlc THEN "vec_xst" ELSE "vec_vsx_st">>
    ELSE <<"VectorStore_ALTIVEC">> \o VectorStore_ALTIVEC_Path(data, off, p, m)

VectorStore_Acc(data, off, p, m) ==
    IF cfg.pwr7
    THEN <<Access("vec_xst", p + off, 16)>>
    ELSE VectorStore_ALTIVEC_Acc(data, off, p, m)

VectorStore_Val(data, off, p, m) ==
    IF cfg.pwr7
    THEN <<data>>
    ELSE VectorStore_ALTIVEC_Val(data, off, p, m)

\* A variant that returns early for an all-zero vector
ShiftOctetPathZeroShortcut(C, v) ==
    IF C >= 16 THEN <<"C >= 16">>
    ELSE IF C = 0 \/ v = ZeroVec THEN <<"C == 0">>
    ELSE IF cfg.be THEN <<"vec_sld", "CRYPTOPP_BIG_ENDIAN">>
    ELSE <<"vec_sld", "little-endian">>

\* VectorShiftLeftOctet<C> and VectorShiftRightOctet<C>: the same tests
VectorShiftOctet_Path(C, v) ==
    IF C >= 16 THEN <<"C >= 16">>
    ELSE IF C = 0 THEN <<"C == 0">>
    ELSE IF cfg.be THEN <<"vec_sld", "CRYPTOPP_BIG_ENDIAN">>
    ELSE <<"vec_sld", "little-endian">>

\* the shifts act on registers only
VectorShiftOctet_Acc(C, v) == <<>>

----------------------------------------------------------------------------
(* One traced call: the caller's buffers and vector hold any of several   *)
(* contents, and the call's decisions and accesses are recorded           *)

OtherPattern == [a \in Addr |-> (7 * a + 3) % 256]

MemContents == {SrcPattern(0), OtherPattern, Fill}

VecContents == {Iota, ZeroVec}

Traced(op, arg, br, acc, val) ==
    [op |-> op, arg |-> arg, vin |-> vec, min |-> dmem, w |-> ZeroVec,
     br |-> br, acc |-> acc, val |-> val]

InitAcc ==
    /\ cfg \in Configs
    /\ src \in Aligns
    /\ dest \in Aligns
    /\ smem \in {SrcPattern(0), OtherPattern}
    /\ dmem = Fill
    /\ vec \in VecContents
    /\ hist = <<>>

TracedVectorLoad(off) ==
    /\ Fresh
    /\ vec' = VectorLoad(off, src, smem)
    /\ hist' = Append(hist, Traced("VectorLoad", off,
                    VectorLoad_Path(off, src, smem),
                    VectorLoad_Acc(off, src, smem), <<>>))
    /\ UNCHANGED <<cfg, smem, dmem, src, dest>>

TracedVectorLoad0 ==
    /\ Fresh
    /\ vec' = VectorLoad0(src, smem)
    /\ hist' = Append(hist, Traced("VectorLoad0", 0,
                    VectorLoad_Path(0, src, smem),
                    VectorLoad_Acc(0, src, smem), <<>>))
    /\ UNCHANGED <<cfg, smem, dmem, src, dest>>

TracedVectorStore(off) ==
    /\ Fresh
    /\ dmem' = VectorStore(vec, off, dest, dmem)
    /\ hist' = Append(hist, Traced("VectorStore", off,
                    VectorStore_Path(vec, off, dest, dmem),
                    VectorStore_Acc(vec, off, dest, dmem),
                    VectorStore_Val(vec, off, dest, dmem)))
    /\ UNCHANGED <<cfg, smem, src, dest, vec>>

TracedVectorStore0 ==
    /\ Fresh
    /\ dmem' = VectorStore0(vec, dest, dmem)
    /\ hist' = Append(hist, Traced("VectorStore0", 0,
                    VectorStore_Path(vec, 0, dest, dmem),
                    VectorStore_Acc(vec, 0, dest, dmem),
                    VectorStore_Val(vec, 0, dest, dmem)))
    /\ UNCHANGED <<cfg, smem, src, dest, vec>>

TracedVectorStore_ALTIVEC0 ==
    /\ Fresh
    /\ dmem' = VectorStore_ALTIVEC0(vec, dest, dmem)
    /\ hist' = Append(hist, Traced("VectorStore_ALTIVEC0", 0,
                    VectorStore_ALTIVEC_Path(vec, 0, dest, dmem),
                    VectorStore_ALTIVEC_Acc(vec, 0, dest, dmem),
                    VectorStore_ALTIVEC_Val(vec, 0, dest, dmem)))
    /\ UNCHANGED <<cfg, smem, src, dest, vec>>

TracedVectorShiftLeftOctet(C) ==
    /\ Fresh
    /\ vec' = VectorShiftLeftOctet(C, vec)
    /\ hist' = Append(hist, Traced("VectorShiftLeftOctet", C,
                    VectorShiftOctet_Path(C, vec),
                    VectorShiftOctet_Acc(C, vec), <<>>))
    /\ UNCHANGED <<cfg, smem, dmem, src, dest>>

TracedVectorShiftRightOctet(C) ==
    /\ Fresh
    /\ vec' = VectorShiftRightOctet(C, vec)
    /\ hist' = Append(hist, Traced("VectorShiftRightOctet", C,
                    VectorShiftOctet_Path(C, vec),
                    VectorShiftOctet_Acc(C, vec), <<>>))
    /\ UNCHANGED <<cfg, smem, dmem, src, dest>>

NextAcc ==
    \/ \E off \in Offsets : TracedVectorLoad(off)
    \/ TracedVectorLoad0
    \/ \E off \in Offsets : TracedVectorStore(off)
    \/ TracedVectorStore0
    \/ TracedVectorStore_ALTIVEC0
    \/ \E C \in Counts : TracedVectorShiftLeftOctet(C)
    \/ \E C \in Counts : TracedVectorShiftRightOctet(C)

SpecAcc == InitAcc /\ [][NextAcc]_vars

----------------------------------------------------------------------------
(* Claims about branches and memory accesses                               *)

TracedLoads == {"VectorLoad", "VectorLoad0"}

TracedStores == {"VectorStore", "VectorStore0"}

TracedShifts == {"VectorShiftLeftOctet", "VectorShiftRightOctet"}

\* C16: every conditional depends only on pointer values, compile-time
\* counts and build configuration: a call with the same address, offset,
\* count and configuration but any other buffer or vector contents takes
\* the same branches and accesses memory at the same addresses.
C16_BranchesAndAddressesIgnoreContents ==
    ~Fresh =>
        \A m2 \in MemContents : \A v2 \in VecContents \cup TestVectors :
            /\ Last.op \in TracedLoads =>
                /\ Last.br = VectorLoad_Path(Last.arg, src, m2)
                /\ Last.acc = VectorLoad_Acc(Last.arg, src, m2)
            /\ Last.op \in TracedStores =>
                /\ Last.br = VectorStore_Path(v2, Last.arg, dest, m2)
                /\ Last.acc = VectorStore_Acc(v2, Last.arg, dest, m2)
            /\ Last.op = "VectorStore_ALTIVEC0" =>
                /\ Last.br = VectorStore_ALTIVEC_Path(v2, 0, dest, m2)
                /\ Last.acc = VectorStore_ALTIVEC_Acc(v2, 0, dest, m2)
            /\ Last.op \in TracedShifts =>
                /\ Last.br = VectorShiftOctet_Path(Last.arg, v2)
                /\ Last.acc = VectorShiftOctet_Acc(Last.arg, v2)

C16_Witness ==
    /\ ~Fresh
    /\ Last.op = "VectorStore"
    /\ ~cfg.pwr7
    /\ dest = 3
    /\ Last.arg = 1
    /\ Last.vin = Iota
    /\ Last.br = <<"VectorStore_ALTIVEC", "unaligned">>
    /\ Len(Last.acc) = 8
    /\ Last.acc = VectorStore_Acc(ZeroVec, 1, 3, OtherPattern)
    /\ Last.val # VectorStore_Val(ZeroVec, 1, 3, OtherPattern)

BlockOf(a) == (a \div 16) * 16

\* C17: on the path without unaligned vector access, Load(buffer, off)
\* takes the single aligned load exactly when buffer+off is a multiple of
\* 16, and otherwise reads exactly the two aligned blocks holding bytes
\* buffer+off and buffer+off+15; it never reads a block that does not
\* overlap [buffer+off, buffer+off+16).
C17_LoadReadsOverlappingBlocks ==
    (~Fresh /\ Last.op \in TracedLoads /\ ~cfg.pwr7) =>
        LET ea == src + Last.arg
            blocks == { Last.acc[i].ea : i \in 1 .. Len(Last.acc) }
        IN  /\ (Last.br = <<"VectorLoad_ALTIVEC", "aligned">>) <=> (ea % 16 = 0)
            /\ ea % 16 = 0 => Last.acc = <<Access("vec_ld", ea, 16)>>
            /\ ea % 16 # 0 =>
                /\ Len(Last.acc) = 2
                /\ blocks = {BlockOf(ea), BlockOf(ea + 15)}
            /\ \A b \in blocks : b < ea + 16 /\ b + 16 > ea

\* the sub-stores of the unaligned branch: offset and element size
SubStores == << <<0, 1>>, <<1, 2>>, <<3, 4>>, <<4, 4>>, <<8, 4>>, <<12, 4>>,
                <<14, 2>>, <<15, 1>> >>

Covered(a) == { a.ea + i : i \in 0 .. a.n - 1 }

\* C18: in the unaligned branch of VectorStore_ALTIVEC at offset 0, for
\* every misalignment 1..15 of dest, the eight vec_ste sub-stores (byte +0,
\* halfword +1, words +3, +4, +8, +12, halfword +14, byte +15, each
\* truncated to its element size) write only inside [dest, dest+16), cover
\* all 16 addresses, agree wherever they overlap, and leave dest[j] equal
\* to byte j of the vector.
C18_SubStoresCoverWindow ==
    (/\ ~Fresh
     /\ \/ Last.op = "VectorStore_ALTIVEC0"
        \/ Last.op \in TracedStores /\ Last.arg = 0 /\ ~cfg.pwr7
     /\ dest % 16 # 0) =>
        LET acc == Last.acc
            val == Last.val
        IN  /\ Len(acc) = 8
            /\ \A i \in 1 .. 8 :
                /\ acc[i].k = "vec_ste"
                /\ acc[i].n = SubStores[i][2]
                /\ acc[i].ea = ((dest + SubStores[i][1]) \div acc[i].n) * acc[i].n
                /\ Covered(acc[i]) \subseteq dest .. dest + 15
            /\ UNION { Covered(acc[i]) : i \in 1 .. 8 } = dest .. dest + 15
            /\ \A i, j \in 1 .. 8 : \A a \in Covered(acc[i]) \cap Covered(acc[j]) :
                    val[i][a - acc[i].ea] = val[j][a - acc[j].ea]
            /\ \A i \in 1 .. 8 : \A a \in Covered(acc[i]) :
                    val[i][a - acc[i].ea] = Last.vin[a - dest]
            /\ dmem = Patched(Last.min, dest, Last.vin)

C18_Witness ==
    /\ ~Fresh
    /\ Last.op = "VectorStore_ALTIVEC0"
    /\ dest = 5
    /\ Last.vin = Iota
    /\ Len(Last.acc) = 8
    /\ Last.acc[3] = Access("vec_ste", 8, 4)
    /\ Last.acc[4] = Access("vec_ste", 8, 4)
    /\ dmem[5] = 160
    /\ dmem[20] = 175
    /\ dmem[4] = Fill[4]
    /\ dmem[21] = Fill[21]

====
